---- MODULE Spec2Model ----
(***************************************************************************)
(* ATS_CHECKER (src/app.py): the /analyze request handler, the PDF text    *)
(* extractor and the Gemini retry loop, as a state machine.                *)
(*                                                                         *)
(* Python strings are modelled as run-length encoded character sequences:  *)
(* a string is a sequence of runs [c |-> character, n |-> repetitions]     *)
(* with n >= 1 and no two adjacent runs of the same character, so that     *)
(* equal strings have equal encodings and strings of 3000 and more         *)
(* characters stay small.  Characters are one-character TLA+ strings.      *)
(***************************************************************************)
EXTENDS Integers, Sequences, FiniteSets, TLC

\* ------------------------------------------------------------------ bounds
\* number of request slots of the model
NumReqs == 2
\* number of distinct file names uuid4 may produce in the model
MaxUuid == 2
\* longest run of leading whitespace on a submitted job description
MaxPad == 2

Reqs == 1..NumReqs
UUIDs == 1..MaxUuid

\* ------------------------------------------------------- python strings
\* characters removed by str.strip() among those the model uses
Whitespace == {" ", "\n", "\t"}

Rep(ch, k) == IF k <= 0 THEN <<>> ELSE <<[c |-> ch, n |-> k]>>

\* s + t
Cat(s, t) ==
    IF s = <<>> THEN t
    ELSE IF t = <<>> THEN s
    ELSE IF s[Len(s)].c = t[1].c
         THEN SubSeq(s, 1, Len(s) - 1)
              \o <<[c |-> t[1].c, n |-> s[Len(s)].n + t[1].n]>>
              \o Tail(t)
         ELSE s \o t

RECURSIVE StrLen(_)
\* len(s)
StrLen(s) == IF s = <<>> THEN 0 ELSE s[1].n + StrLen(Tail(s))

RECURSIVE LStrip(_)
LStrip(s) ==
    IF s = <<>> THEN <<>>
    ELSE IF s[1].c \in Whitespace THEN LStrip(Tail(s)) ELSE s

RECURSIVE RStrip(_)
RStrip(s) ==
    IF s = <<>> THEN <<>>
    ELSE IF s[Len(s)].c \in Whitespace
         THEN RStrip(SubSeq(s, 1, Len(s) - 1)) ELSE s

\* s.strip()
Strip(s) == RStrip(LStrip(s))

RECURSIVE Slice(_, _)
\* s[:k]
Slice(s, k) ==
    IF s = <<>> \/ k <= 0 THEN <<>>
    ELSE IF s[1].n >= k THEN <<[c |-> s[1].c, n |-> k]>>
    ELSE <<s[1]>> \o Slice(Tail(s), k - s[1].n)

RECURSIVE Lit(_)
\* the string whose characters are listed in chars
Lit(chars) ==
    IF chars = <<>> THEN <<>>
    ELSE Cat(Lit(SubSeq(chars, 1, Len(chars) - 1)), Rep(chars[Len(chars)], 1))

\* ---------------------------------------------------- program constants
\* a retry schedule with a sixth attempt
delays_SixAttempts == <<1, 2, 4, 8, 16, 32>>

\* delays = [1, 2, 4, 8, 16]
delays == <<1, 2, 4, 8, 16>>

\* the slice bound of resume_text[:3000] and jd_text[:3000]
TruncLimit == 3000

\* the string returned when every attempt failed
Fallback ==
    Lit(<<"E", "r", "r", "o", "r", ":", " ", "A", "I", " ", "e", "n",
          "g", "i", "n", "e", " ", "i", "s", " ", "c", "u", "r", "r",
          "e", "n", "t", "l", "y", " ", "o", "v", "e", "r", "l", "o",
          "a", "d", "e", "d", ".", " ", "P", "l", "e", "a", "s", "e",
          " ", "t", "r", "y", " ", "a", "g", "a", "i", "n", " ", "i",
          "n", " ", "3", "0", " ", "s", "e", "c", "o", "n", "d", "s",
          ".">>)

\* ------------------------------------------------------- PDF extraction
\* What PyPDF2 gives for an uploaded file: whether it opens and parses at
\* all, and for each page what page.extract_text() does: kind "text"
\* (returns the string text, possibly empty), "none" (returns None) or
\* "raise" (raises).
PageText(t) == [kind |-> "text", text |-> t]
PageNone == [kind |-> "none", text |-> <<>>]
PageRaise == [kind |-> "raise", text |-> <<>>]
Pdf(pages) == [readable |-> TRUE, pages |-> pages]
Unreadable == [readable |-> FALSE, pages |-> <<>>]

RECURSIVE PageLoop(_, _)
\* the for loop over reader.pages, entered with the text accumulated so
\* far; an exception of a page leaves the loop with the text so far
PageLoop(text, pages) ==
    IF pages = <<>> THEN text
    ELSE IF pages[1].kind = "raise" THEN text
    ELSE IF pages[1].kind = "text" /\ pages[1].text # <<>>
         THEN PageLoop(Cat(Cat(text, pages[1].text), Rep("\n", 1)), Tail(pages))
         ELSE PageLoop(text, Tail(pages))

\* an extraction that returns the accumulated text untrimmed
extract_text_from_pdf_NoStrip(f) ==
    IF f.readable THEN PageLoop(<<>>, f.pages) ELSE <<>>

\* extract_text_from_pdf applied to a file of content f
extract_text_from_pdf(f) ==
    IF f.readable THEN Strip(PageLoop(<<>>, f.pages)) ELSE <<>>

\* ------------------------------------------------------ request inputs
\* the lengths around the slice bound
EdgeLens == {TruncLimit - 1, TruncLimit, TruncLimit + 1}

\* job descriptions before surrounding whitespace is added
JdBodies == {<<>>, Lit(<<"a", " ", "b">>)} \cup {Rep("a", k) : k \in EdgeLens}

\* values of the job_description form field
JobDescriptions ==
    {Cat(Cat(Rep(" ", lead), body), trail) :
        lead \in 0..MaxPad, body \in JdBodies, trail \in {<<>>, Rep("\n", 1)}}

\* contents of the uploaded resume part
ResumeFiles ==
    { Unreadable,
      Pdf(<<>>),
      Pdf(<<PageRaise>>),
      Pdf(<<PageText(Lit(<<" ", "\t">>))>>),
      Pdf(<<PageText(Rep("x", 2)), PageNone, PageText(Rep("y", 1))>>),
      Pdf(<<PageText(Rep("x", 1)), PageRaise, PageText(Rep("y", 1))>>),
      Pdf(<<PageText(Rep("x", TruncLimit + 1))>>),
      Pdf(<<PageText(Cat(Rep(" ", 1), Rep("x", TruncLimit - 1))),
            PageText(Rep("y", 1))>>) }

\* a multipart POST /analyze: request.files and request.form
Requests ==
    [has_resume : {TRUE}, resume : ResumeFiles,
     has_jd : {TRUE}, job_description : JobDescriptions]
    \cup [has_resume : {TRUE}, resume : ResumeFiles,
          has_jd : {FALSE}, job_description : {<<>>}]
    \cup [has_resume : {FALSE}, resume : {Unreadable},
          has_jd : {TRUE}, job_description : JobDescriptions]
    \cup [has_resume : {FALSE}, resume : {Unreadable},
          has_jd : {FALSE}, job_description : {<<>>}]

NoRequest ==
    [has_resume |-> FALSE, resume |-> Unreadable,
     has_jd |-> FALSE, job_description |-> <<>>]

\* ------------------------------------------------------- remote service
\* what one client.models.generate_content call followed by response.text
\* can give: the call raises, the response has no text (response.text is
\* None), or the response carries a text
GeneratedTexts ==
    { Lit(<<"\n", "A", "T", "S", " ", "8", "0", "%", " ">>), Rep("\n", 1) }

RemoteOutcomes ==
    {[kind |-> "raise", text |-> <<>>], [kind |-> "none", text |-> <<>>]}
    \cup {[kind |-> "text", text |-> t] : t \in GeneratedTexts}

\* ---------------------------------------------------------------- state
VARIABLES
    request,      \* request[r]: the multipart request r was sent with
    pc,           \* pc[r]: where the handler of request r stands
    jd_text,      \* local jd_text of analyze
    pdf_path,     \* local pdf_path of analyze: a name in UUIDs, 0 before
    resume_text,  \* local resume_text of analyze
    delay_idx,    \* position of the loop variable delay in delays
    ats_result,   \* local ats_result of analyze
    response,     \* response[r]: status 0 while none was returned
    log,          \* log[r]: remote calls and sleeps of request r, in order
    disk,         \* disk[u]: <<>> when uploads/u.pdf is absent, else <<content>>
    issued        \* file names uuid4 has produced

vars == <<request, pc, jd_text, pdf_path, resume_text, delay_idx,
          ats_result, response, log, disk, issued>>

NoResponse == [status |-> 0]

\* jsonify({"error": msg}), code
ErrorResponse(code, msg) == [status |-> code, error |-> msg]

\* an except branch that leaves the exception's message out
InternalError_NoMessage(msg) == ErrorResponse(500, "Internal Server Error")

\* the except branch of analyze, for an exception whose str() is msg
InternalError(msg) == ErrorResponse(500, "Internal Server Error: " \o msg)

\* os.path.exists(pdf_path)
Exists(path) == disk[path] # <<>>

\* the content open(pdf_path, "rb") reads; a missing file fails to open
ReadFile(path) == IF Exists(path) THEN disk[path][1] ELSE Unreadable

InitCommon ==
    /\ jd_text = [r \in Reqs |-> <<>>]
    /\ pdf_path = [r \in Reqs |-> 0]
    /\ resume_text = [r \in Reqs |-> <<>>]
    /\ delay_idx = [r \in Reqs |-> 0]
    /\ ats_result = [r \in Reqs |-> <<>>]
    /\ response = [r \in Reqs |-> NoResponse]
    /\ log = [r \in Reqs |-> <<>>]
    /\ disk = [u \in UUIDs |-> <<>>]
    /\ issued = {}

\* one request, with any of the inputs, has reached analyze
Init ==
    /\ InitCommon
    /\ \E q \in Requests :
           request = [r \in Reqs |-> IF r = 1 THEN q ELSE NoRequest]
    /\ pc = [r \in Reqs |-> IF r = 1 THEN "analyze" ELSE "none"]

\* -------------------------------------------------------------- analyze
\* validation that tests the job description before the resume part
Validate_JdFirst(r) ==
    /\ pc[r] = "analyze"
    /\ LET jd == Strip(IF request[r].has_jd
                       THEN request[r].job_description ELSE <<>>)
       IN IF jd = <<>>
          THEN /\ response' = [response EXCEPT ![r] =
                      ErrorResponse(400, "Job description required")]
               /\ pc' = [pc EXCEPT ![r] = "done"]
               /\ UNCHANGED jd_text
          ELSE /\ jd_text' = [jd_text EXCEPT ![r] = jd]
               /\ IF ~request[r].has_resume
                  THEN /\ response' = [response EXCEPT ![r] =
                              ErrorResponse(400, "Resume file missing")]
                       /\ pc' = [pc EXCEPT ![r] = "done"]
                  ELSE /\ pc' = [pc EXCEPT ![r] = "save"]
                       /\ UNCHANGED response
    /\ UNCHANGED <<request, pdf_path, resume_text, delay_idx, ats_result,
                   log, disk, issued>>

\* validation that does not trim the job description
Validate_NoStrip(r) ==
    /\ pc[r] = "analyze"
    /\ IF ~request[r].has_resume
       THEN /\ response' = [response EXCEPT ![r] =
                               ErrorResponse(400, "Resume file missing")]
            /\ pc' = [pc EXCEPT ![r] = "done"]
            /\ UNCHANGED jd_text
       ELSE LET jd == IF request[r].has_jd
                      THEN request[r].job_description ELSE <<>>
            IN /\ jd_text' = [jd_text EXCEPT ![r] = jd]
               /\ IF jd = <<>>
                  THEN /\ response' = [response EXCEPT ![r] =
                              ErrorResponse(400, "Job description required")]
                       /\ pc' = [pc EXCEPT ![r] = "done"]
                  ELSE /\ pc' = [pc EXCEPT ![r] = "save"]
                       /\ UNCHANGED response
    /\ UNCHANGED <<request, pdf_path, resume_text, delay_idx, ats_result,
                   log, disk, issued>>

\* validation without the test of the job description
Validate_NoJdCheck(r) ==
    /\ pc[r] = "analyze"
    /\ IF ~request[r].has_resume
       THEN /\ response' = [response EXCEPT ![r] =
                               ErrorResponse(400, "Resume file missing")]
            /\ pc' = [pc EXCEPT ![r] = "done"]
            /\ UNCHANGED jd_text
       ELSE /\ jd_text' = [jd_text EXCEPT ![r] =
                   Strip(IF request[r].has_jd
                         THEN request[r].job_description ELSE <<>>)]
            /\ pc' = [pc EXCEPT ![r] = "save"]
            /\ UNCHANGED response
    /\ UNCHANGED <<request, pdf_path, resume_text, delay_idx, ats_result,
                   log, disk, issued>>

\* 1. input validation
Validate(r) ==
    /\ pc[r] = "analyze"
    /\ IF ~request[r].has_resume
       THEN /\ response' = [response EXCEPT ![r] =
                               ErrorResponse(400, "Resume file missing")]
            /\ pc' = [pc EXCEPT ![r] = "done"]
            /\ UNCHANGED jd_text
       ELSE LET jd == Strip(IF request[r].has_jd
                            THEN request[r].job_description ELSE <<>>)
            IN /\ jd_text' = [jd_text EXCEPT ![r] = jd]
               /\ IF jd = <<>>
                  THEN /\ response' = [response EXCEPT ![r] =
                              ErrorResponse(400, "Job description required")]
                       /\ pc' = [pc EXCEPT ![r] = "done"]
                  ELSE /\ pc' = [pc EXCEPT ![r] = "save"]
                       /\ UNCHANGED response
    /\ UNCHANGED <<request, pdf_path, resume_text, delay_idx, ats_result,
                   log, disk, issued>>

\* how resume_file.save(pdf_path) can end: the file is written; opening the
\* destination raises and no file appears; writing raises and a truncated
\* file is left behind
SaveOutcomes == {"ok", "raise_open", "raise_write"}

\* a save under a file name that may have been produced before
SaveUpload_AnyName(r) ==
    /\ pc[r] = "save"
    /\ \E u \in UUIDs, out \in SaveOutcomes :
          /\ issued' = issued \cup {u}
          /\ pdf_path' = [pdf_path EXCEPT ![r] = u]
          /\ disk' = [disk EXCEPT ![u] =
                        IF out = "ok" THEN <<request[r].resume>>
                        ELSE IF out = "raise_write" THEN <<Unreadable>>
                        ELSE @]
          /\ IF out = "ok"
             THEN /\ pc' = [pc EXCEPT ![r] = "extract"]
                  /\ UNCHANGED response
             ELSE /\ pc' = [pc EXCEPT ![r] = "done"]
                  /\ response' = [response EXCEPT ![r] = InternalError("save")]
    /\ UNCHANGED <<request, jd_text, resume_text, delay_idx, ats_result, log>>

\* 2. the file name from uuid4, never one produced before, and the save
SaveUpload(r) ==
    /\ pc[r] = "save"
    /\ \E u \in UUIDs \ issued, out \in SaveOutcomes :
          /\ issued' = issued \cup {u}
          /\ pdf_path' = [pdf_path EXCEPT ![r] = u]
          /\ disk' = [disk EXCEPT ![u] =
                        IF out = "ok" THEN <<request[r].resume>>
                        ELSE IF out = "raise_write" THEN <<Unreadable>>
                        ELSE @]
          /\ IF out = "ok"
             THEN /\ pc' = [pc EXCEPT ![r] = "extract"]
                  /\ UNCHANGED response
             ELSE /\ pc' = [pc EXCEPT ![r] = "done"]
                  /\ response' = [response EXCEPT ![r] = InternalError("save")]
    /\ UNCHANGED <<request, jd_text, resume_text, delay_idx, ats_result, log>>

\* extraction that goes on to the remote call whatever the text is
Extract_NoShortCircuit(r) ==
    /\ pc[r] = "extract"
    /\ resume_text' = [resume_text EXCEPT ![r] =
                          extract_text_from_pdf(ReadFile(pdf_path[r]))]
    /\ pc' = [pc EXCEPT ![r] = "generate"]
    /\ delay_idx' = [delay_idx EXCEPT ![r] = 1]
    /\ UNCHANGED <<request, jd_text, pdf_path, ats_result, response, log,
                   disk, issued>>

\* 3. text extraction and the test of its result
Extract(r) ==
    /\ pc[r] = "extract"
    /\ LET text == extract_text_from_pdf(ReadFile(pdf_path[r]))
       IN /\ resume_text' = [resume_text EXCEPT ![r] = text]
          /\ IF text = <<>>
             THEN /\ pc' = [pc EXCEPT ![r] = "reject"]
                  /\ UNCHANGED delay_idx
             ELSE /\ pc' = [pc EXCEPT ![r] = "generate"]
                  /\ delay_idx' = [delay_idx EXCEPT ![r] = 1]
    /\ UNCHANGED <<request, jd_text, pdf_path, ats_result, response, log,
                   disk, issued>>

\* how os.remove can end
RemoveOutcomes == {"ok", "raise"}

\* a removal outside any try block: when it raises the handler ends
\* without a response of its own
RemoveAndRespond_Propagates(r, resp) ==
    \E rm \in RemoveOutcomes :
       /\ rm = "raise" => Exists(pdf_path[r])
       /\ disk' = [disk EXCEPT ![pdf_path[r]] = IF rm = "ok" THEN <<>> ELSE @]
       /\ response' = [response EXCEPT ![r] = IF rm = "ok" THEN resp ELSE @]
       /\ pc' = [pc EXCEPT ![r] = "done"]

\* if os.path.exists(pdf_path): os.remove(pdf_path), then the response
\* returned when the removal did not raise
RemoveAndRespond(r, resp) ==
    \E rm \in RemoveOutcomes :
       /\ rm = "raise" => Exists(pdf_path[r])
       /\ disk' = [disk EXCEPT ![pdf_path[r]] = IF rm = "ok" THEN <<>> ELSE @]
       /\ response' = [response EXCEPT ![r] =
                          IF rm = "ok" THEN resp ELSE InternalError("remove")]
       /\ pc' = [pc EXCEPT ![r] = "done"]

\* the branch taken when no text was extracted
RejectUnextractable(r) ==
    /\ pc[r] = "reject"
    /\ RemoveAndRespond(r,
          ErrorResponse(400, "Could not extract text from the uploaded PDF"))
    /\ UNCHANGED <<request, jd_text, pdf_path, resume_text, delay_idx,
                   ats_result, log, issued>>

\* ------------------------------------------------------- run_ats_engine
\* the entries of log: a remote call with what it gave, a sleep with its
\* duration in seconds
CallEvent(out) == [op |-> "call", res |-> out.kind, text |-> out.text, d |-> 0]
SleepEvent(secs) == [op |-> "sleep", res |-> "", text |-> <<>>, d |-> secs]

\* a try block that returns response.text untrimmed
GenerateContent_NoStrip(r) ==
    /\ pc[r] = "generate"
    /\ \E out \in RemoteOutcomes :
          /\ log' = [log EXCEPT ![r] = Append(@, CallEvent(out))]
          /\ IF out.kind = "text"
             THEN /\ ats_result' = [ats_result EXCEPT ![r] = out.text]
                  /\ pc' = [pc EXCEPT ![r] = "cleanup"]
             ELSE /\ pc' = [pc EXCEPT ![r] = "sleep"]
                  /\ UNCHANGED ats_result
    /\ UNCHANGED <<request, jd_text, pdf_path, resume_text, delay_idx,
                   response, disk, issued>>

\* a loop whose response.text.strip() stands outside the try block: a
\* response without text raises out of run_ats_engine into analyze
GenerateContent_TextOutsideTry(r) ==
    /\ pc[r] = "generate"
    /\ \E out \in RemoteOutcomes :
          /\ log' = [log EXCEPT ![r] = Append(@, CallEvent(out))]
          /\ IF out.kind = "text"
             THEN /\ ats_result' = [ats_result EXCEPT ![r] = Strip(out.text)]
                  /\ pc' = [pc EXCEPT ![r] = "cleanup"]
                  /\ UNCHANGED response
             ELSE IF out.kind = "none"
             THEN /\ response' = [response EXCEPT ![r] =
                         InternalError("'NoneType' object has no attribute 'strip'")]
                  /\ pc' = [pc EXCEPT ![r] = "done"]
                  /\ UNCHANGED ats_result
             ELSE /\ pc' = [pc EXCEPT ![r] = "sleep"]
                  /\ UNCHANGED <<ats_result, response>>
    /\ UNCHANGED <<request, jd_text, pdf_path, resume_text, delay_idx,
                   disk, issued>>

\* the try block: generate_content and response.text.strip()
GenerateContent(r) ==
    /\ pc[r] = "generate"
    /\ \E out \in RemoteOutcomes :
          /\ log' = [log EXCEPT ![r] = Append(@, CallEvent(out))]
          /\ IF out.kind = "text"
             THEN /\ ats_result' = [ats_result EXCEPT ![r] = Strip(out.text)]
                  /\ pc' = [pc EXCEPT ![r] = "cleanup"]
             ELSE /\ pc' = [pc EXCEPT ![r] = "sleep"]
                  /\ UNCHANGED ats_result
    /\ UNCHANGED <<request, jd_text, pdf_path, resume_text, delay_idx,
                   response, disk, issued>>

\* an except block after which the exhausted loop returns no fallback string
Sleep_NoFallback(r) ==
    /\ pc[r] = "sleep"
    /\ log' = [log EXCEPT ![r] = Append(@, SleepEvent(delays[delay_idx[r]]))]
    /\ IF delay_idx[r] < Len(delays)
       THEN /\ delay_idx' = [delay_idx EXCEPT ![r] = @ + 1]
            /\ pc' = [pc EXCEPT ![r] = "generate"]
       ELSE /\ pc' = [pc EXCEPT ![r] = "cleanup"]
            /\ UNCHANGED delay_idx
    /\ UNCHANGED <<request, jd_text, pdf_path, resume_text, ats_result,
                   response, disk, issued>>

\* the except block: time.sleep(delay), then the next delay or, after the
\* last one, the return of the fallback string
Sleep(r) ==
    /\ pc[r] = "sleep"
    /\ log' = [log EXCEPT ![r] = Append(@, SleepEvent(delays[delay_idx[r]]))]
    /\ IF delay_idx[r] < Len(delays)
       THEN /\ delay_idx' = [delay_idx EXCEPT ![r] = @ + 1]
            /\ pc' = [pc EXCEPT ![r] = "generate"]
            /\ UNCHANGED ats_result
       ELSE /\ ats_result' = [ats_result EXCEPT ![r] = Fallback]
            /\ pc' = [pc EXCEPT ![r] = "cleanup"]
            /\ UNCHANGED delay_idx
    /\ UNCHANGED <<request, jd_text, pdf_path, resume_text, response, disk,
                   issued>>

\* ------------------------------------------------- cleanup and response
\* a 200 response whose job description is not cut
SuccessResponse_NoJdSlice(r) ==
    [status |-> 200,
     parsed_resume |-> Slice(resume_text[r], TruncLimit),
     parsed_job_description |-> jd_text[r],
     ats_result |-> ats_result[r]]

\* a 200 response whose resume text is trimmed again after the cut
SuccessResponse_StripResume(r) ==
    [status |-> 200,
     parsed_resume |-> Strip(Slice(resume_text[r], TruncLimit)),
     parsed_job_description |-> Slice(jd_text[r], TruncLimit),
     ats_result |-> ats_result[r]]

\* the body of the 200 response
SuccessResponse(r) ==
    [status |-> 200,
     parsed_resume |-> Slice(resume_text[r], TruncLimit),
     parsed_job_description |-> Slice(jd_text[r], TruncLimit),
     ats_result |-> ats_result[r]]

\* a success path that answers without removing the temp file
CleanupAndRespond_NoCleanup(r) ==
    /\ pc[r] = "cleanup"
    /\ response' = [response EXCEPT ![r] = SuccessResponse(r)]
    /\ pc' = [pc EXCEPT ![r] = "done"]
    /\ UNCHANGED <<request, jd_text, pdf_path, resume_text, delay_idx,
                   ats_result, log, disk, issued>>

\* 5. and 6. removal of the temp file, then the response
CleanupAndRespond(r) ==
    /\ pc[r] = "cleanup"
    /\ RemoveAndRespond(r, SuccessResponse(r))
    /\ UNCHANGED <<request, jd_text, pdf_path, resume_text, delay_idx,
                   ats_result, log, issued>>

Next ==
    \E r \in Reqs :
       \/ Validate(r)
       \/ SaveUpload(r)
       \/ Extract(r)
       \/ RejectUnextractable(r)
       \/ GenerateContent(r)
       \/ Sleep(r)
       \/ CleanupAndRespond(r)

Spec == Init /\ [][Next]_vars

\* the steps of the handler of request r
Handler(r) ==
    \/ Validate(r)
    \/ SaveUpload(r)
    \/ Extract(r)
    \/ RejectUnextractable(r)
    \/ GenerateContent(r)
    \/ Sleep(r)
    \/ CleanupAndRespond(r)

\* the worker that runs a handler keeps running it: every file operation,
\* remote call and sleep it waits for comes back
FairSpec == Spec /\ \A r \in Reqs : WF_vars(Handler(r))

\* ------------------------------------------- two requests, same inputs
\* the two requests whose handlers run side by side
Twins == {1, 2}

\* the inputs the two requests are sent with: a job description and a
\* resume from which text is extracted, or one from which none is
TwinRequests ==
    {q \in Requests :
        /\ q.has_resume
        /\ q.has_jd
        /\ q.job_description = Lit(<<"a", " ", "b">>)
        /\ q.resume \in
              {Pdf(<<>>),
               Pdf(<<PageText(Rep("x", 2)), PageNone, PageText(Rep("y", 1))>>)}}

\* both requests, with identical inputs, have reached analyze
InitTwins ==
    /\ InitCommon
    /\ \E q \in TwinRequests :
           request = [r \in Reqs |-> IF r \in Twins THEN q ELSE NoRequest]
    /\ pc = [r \in Reqs |-> IF r \in Twins THEN "analyze" ELSE "none"]

\* the handlers of the two requests interleaved in any order, as threads of
\* the host's pool
SpecTwins == InitTwins /\ [][Next]_vars

TypeOK ==
    /\ \A r \in Reqs :
          /\ pc[r] \in {"none", "analyze", "save", "extract", "reject",
                         "generate", "sleep", "cleanup", "done"}
          /\ pdf_path[r] \in UUIDs \cup {0}
          /\ delay_idx[r] \in 0..Len(delays)
          /\ response[r].status \in {0, 200, 400, 500}
    /\ issued \subseteq UUIDs

\* ------------------------------------------------ reading the log
\* positions of the remote calls in a log
CallPositions(l) == {p \in DOMAIN l : l[p].op = "call"}

\* the number of remote calls among the first p entries of a log
CallsUpTo(l, p) == Cardinality({q \in CallPositions(l) : q <= p})

RECURSIVE TotalSlept(_)
\* seconds slept according to a log
TotalSlept(l) == IF l = <<>> THEN 0 ELSE l[1].d + TotalSlept(Tail(l))

\* request r has been answered
Finished(r) == pc[r] = "done"

\* C1: a request makes at most 5 remote calls; a sleep happens only directly
\* after a failed attempt, and the sleep after the k-th failed attempt lasts
\* the k-th of 1, 2, 4, 8, 16 seconds; every failed attempt is followed by
\* its sleep (the handler is about to sleep while the failed attempt is the
\* last entry of the log).
C1_RetrySchedule ==
    \A r \in Reqs :
       LET l == log[r] IN
       /\ Cardinality(CallPositions(l)) <= 5
       /\ \A p \in DOMAIN l :
             l[p].op = "sleep" =>
                /\ p > 1
                /\ l[p - 1].op = "call"
                /\ l[p - 1].res # "text"
                /\ CallsUpTo(l, p) \in 1..5
                /\ l[p].d = <<1, 2, 4, 8, 16>>[CallsUpTo(l, p)]
       /\ \A p \in CallPositions(l) :
             l[p].res # "text" =>
                IF p < Len(l) THEN l[p + 1].op = "sleep" ELSE pc[r] = "sleep"

\* five attempts failed, the remote call raising at least once, and each
\* was followed by its sleep
C1_Witness ==
    \E r \in Reqs :
       /\ Len(log[r]) = 10
       /\ \E p \in CallPositions(log[r]) : log[r][p].res = "raise"
       /\ [p \in 1..5 |-> log[r][2 * p].d] = <<1, 2, 4, 8, 16>>

\* ------------------------------------------------ C2: exhaustion
\* the remote call raised on each of five attempts of request r
AllFiveRaised(r) ==
    /\ Cardinality(CallPositions(log[r])) = 5
    /\ \A p \in CallPositions(log[r]) : log[r][p].res = "raise"

\* C2 as claimed: a finished request whose five attempts all raised was
\* answered 200 with the fallback string as ats_result, after 31 seconds of
\* sleep in total.
C2_AsClaimed ==
    \A r \in Reqs :
       (Finished(r) /\ AllFiveRaised(r)) =>
          /\ response[r].status = 200
          /\ response[r].ats_result = Fallback
          /\ TotalSlept(log[r]) = 31

\* C2: a finished request whose five attempts all raised slept 31 seconds in
\* total and was answered 200 with the fallback string as ats_result, unless
\* the removal of its temp file raised, in which case it was answered 500
\* and the file is still there.
C2_Exhausted ==
    \A r \in Reqs :
       (Finished(r) /\ AllFiveRaised(r)) =>
          /\ TotalSlept(log[r]) = 31
          /\ \/ /\ response[r].status = 200
                /\ response[r].ats_result = Fallback
                /\ ~Exists(pdf_path[r])
             \/ /\ response[r] = [status |-> 500,
                                  error |-> "Internal Server Error: remove"]
                /\ Exists(pdf_path[r])

C2_Witness ==
    \E r \in Reqs :
       /\ Finished(r)
       /\ AllFiveRaised(r)
       /\ response[r].status = 200
       /\ response[r].ats_result = Fallback

\* ------------------------------------------------ C3: success
\* the conclusion of C3 for the call at position p of the log of request r
ReturnedAt(r, p) ==
    LET l == log[r] IN
    /\ l[p].res = "text"
    /\ p = Len(l)
    /\ pc[r] \in {"cleanup", "done"}
    /\ ats_result[r] = Strip(l[p].text)
    /\ ats_result[r] # Fallback
    /\ TotalSlept(l) = 2 ^ (CallsUpTo(l, p) - 1) - 1

\* C3 as claimed: the first remote call that does not raise ends the engine
\* with its trimmed text, after the first k-1 delays.
C3_AsClaimed ==
    \A r \in Reqs :
       \A p \in CallPositions(log[r]) :
          (/\ log[r][p].res # "raise"
           /\ \A q \in CallPositions(log[r]) : q < p => log[r][q].res = "raise")
          => ReturnedAt(r, p)

\* C3: the first remote call whose response carries a text (every earlier
\* attempt raised or gave a response without text) is the last entry of
\* the log: the engine has returned that text trimmed, no call and no sleep
\* follows, the time slept is the sum of the first k-1 delays, and the
\* fallback string was not returned.
C3_FirstText ==
    \A r \in Reqs :
       \A p \in CallPositions(log[r]) :
          log[r][p].res = "text" => ReturnedAt(r, p)

\* the third attempt succeeded with a text that has surrounding whitespace
C3_Witness ==
    \E r \in Reqs :
       /\ Len(log[r]) = 5
       /\ log[r][5].res = "text"
       /\ log[r][5].text # Strip(log[r][5].text)
       /\ Strip(log[r][5].text) # <<>>
       /\ Finished(r)

\* ------------------------------------------------ C4, C5: the temp file
\* request r wrote its upload to disk: the save returned
Saved(r) ==
    /\ pdf_path[r] # 0
    /\ pc[r] # "save"
    /\ response[r] # [status |-> 500, error |-> "Internal Server Error: save"]

\* C4: after a request that saved a temp file has been answered, whatever
\* the answer, its temp file does not exist.
C4_AsClaimed ==
    \A r \in Reqs : (Finished(r) /\ Saved(r)) => ~Exists(pdf_path[r])

\* C5: after a 200 response the temp file of the request does not exist.
C5_CleanAfterSuccess ==
    \A r \in Reqs :
       response[r].status = 200 => (Saved(r) /\ ~Exists(pdf_path[r]))

\* a 200 carrying the fallback string, the file gone
C5_Witness ==
    \E r \in Reqs :
       /\ response[r].status = 200
       /\ response[r].ats_result = Fallback
       /\ ~Exists(pdf_path[r])
       /\ pdf_path[r] \in issued

\* ------------------------------------------------ C6: nothing extracted
\* the extraction of request r gave the empty string
ExtractedEmpty(r) ==
    /\ Saved(r)
    /\ pc[r] \in {"reject", "done"}
    /\ resume_text[r] = <<>>

\* C6 as claimed: a request whose extraction gave the empty string is
\* answered 400 with the extraction message, its temp file deleted, and made
\* no remote call.
C6_AsClaimed ==
    \A r \in Reqs :
       (Finished(r) /\ ExtractedEmpty(r)) =>
          /\ response[r] = [status |-> 400,
                error |-> "Could not extract text from the uploaded PDF"]
          /\ ~Exists(pdf_path[r])
          /\ log[r] = <<>>

\* C6: a request whose extraction gave the empty string makes no remote
\* call and is answered 400 with the extraction message, its temp file
\* deleted, unless the removal of the temp file raises, in which case it is
\* answered 500 and the file is still there.
C6_EmptyExtraction ==
    \A r \in Reqs :
       ExtractedEmpty(r) =>
          /\ log[r] = <<>>
          /\ Finished(r) =>
                \/ /\ response[r] = [status |-> 400,
                         error |-> "Could not extract text from the uploaded PDF"]
                   /\ ~Exists(pdf_path[r])
                \/ /\ response[r] = [status |-> 500,
                         error |-> "Internal Server Error: remove"]
                   /\ Exists(pdf_path[r])

C6_Witness ==
    \E r \in Reqs :
       /\ Finished(r)
       /\ ExtractedEmpty(r)
       /\ request[r].resume.readable
       /\ request[r].resume.pages # <<>>
       /\ response[r].status = 400

\* ------------------------------------------------ C7, C8: validation
\* every character of s is whitespace (the empty string included)
Blank(s) == \A i \in DOMAIN s : s[i].c \in {" ", "\n", "\t"}

\* the job_description field as submitted, the empty string when missing
SubmittedJd(r) == IF request[r].has_jd THEN request[r].job_description ELSE <<>>

\* C7: a request without resume part is answered 400 "Resume file missing",
\* whatever its job description.
C7_ResumeMissing ==
    \A r \in Reqs :
       (Finished(r) /\ ~request[r].has_resume) =>
          response[r] = [status |-> 400, error |-> "Resume file missing"]

\* neither part was sent
C7_Witness ==
    \E r \in Reqs :
       /\ Finished(r)
       /\ ~request[r].has_resume
       /\ ~request[r].has_jd
       /\ response[r].status = 400

\* C8: with the resume part present, a missing, empty or whitespace-only job
\* description is answered 400 "Job description required", and a job
\* description with a non-whitespace character is never answered so.
C8_JdRequired ==
    \A r \in Reqs :
       Finished(r) =>
          /\ (request[r].has_resume /\ Blank(SubmittedJd(r))) =>
                response[r] = [status |-> 400,
                               error |-> "Job description required"]
          /\ ~Blank(SubmittedJd(r)) =>
                response[r] # [status |-> 400,
                               error |-> "Job description required"]

\* a job description of whitespace only was rejected
C8_Witness ==
    \E r \in Reqs :
       /\ Finished(r)
       /\ request[r].has_resume
       /\ request[r].has_jd
       /\ SubmittedJd(r) # <<>>
       /\ Blank(SubmittedJd(r))
       /\ response[r].status = 400

\* ------------------------------------------------ C9, C10: truncation
\* C9 as claimed: a submitted job description of more than 3000 characters
\* comes back 3000 characters long in a 200 response.
C9_AsClaimed ==
    \A r \in Reqs :
       (response[r].status = 200 /\ StrLen(SubmittedJd(r)) > 3000) =>
          StrLen(response[r].parsed_job_description) = 3000

\* C9: a submitted job description that is more than 3000 characters long
\* after its surrounding whitespace is trimmed comes back 3000 characters
\* long in a 200 response.
C9_TrimmedOver3000 ==
    \A r \in Reqs :
       (response[r].status = 200 /\ StrLen(Strip(SubmittedJd(r))) > 3000) =>
          StrLen(response[r].parsed_job_description) = 3000

C9_Witness ==
    \E r \in Reqs :
       /\ response[r].status = 200
       /\ StrLen(Strip(SubmittedJd(r))) > 3000
       /\ StrLen(SubmittedJd(r)) > StrLen(Strip(SubmittedJd(r)))

\* p is a prefix of s
IsPrefix(p, s) ==
    \/ p = <<>>
    \/ /\ Len(p) <= Len(s)
       /\ \A i \in 1..(Len(p) - 1) : p[i] = s[i]
       /\ p[Len(p)].c = s[Len(p)].c
       /\ p[Len(p)].n <= s[Len(p)].n

Min(a, b) == IF a <= b THEN a ELSE b

\* C10: parsed_resume of a 200 response is the prefix of the extracted
\* resume text of length min(len(text), 3000).
C10_ResumePrefix ==
    \A r \in Reqs :
       response[r].status = 200 =>
          LET text == extract_text_from_pdf(request[r].resume)
              parsed == response[r].parsed_resume
          IN /\ resume_text[r] = text
             /\ IsPrefix(parsed, text)
             /\ StrLen(parsed) = Min(StrLen(text), 3000)

\* a text of more than 3000 characters whose cut ends in whitespace
C10_Witness ==
    \E r \in Reqs :
       /\ response[r].status = 200
       /\ StrLen(resume_text[r]) > 3000
       /\ response[r].parsed_resume # Strip(response[r].parsed_resume)


\* ------------------------------------------------ C11: two requests
\* request r holds a temp file it saved and has not yet removed
HoldsFile(r) ==
    /\ pdf_path[r] # 0
    /\ pc[r] \in {"extract", "reject", "generate", "sleep", "cleanup"}

\* C11: two requests with identical inputs never have the same temp file
\* name; the file of a request stays on disk with the content that request
\* saved until the request itself removes it, so its extraction reads its
\* own upload; and each request that extracted text makes its own remote
\* calls.
C11_Independent ==
    /\ \A r1, r2 \in Reqs :
          (r1 # r2 /\ pdf_path[r1] # 0 /\ pdf_path[r2] # 0) =>
             pdf_path[r1] # pdf_path[r2]
    /\ \A r \in Reqs :
          /\ HoldsFile(r) => disk[pdf_path[r]] = <<request[r].resume>>
          /\ pc[r] \in {"reject", "generate", "sleep", "cleanup"} =>
                resume_text[r] = extract_text_from_pdf(request[r].resume)
          /\ (pc[r] \in {"sleep", "cleanup", "done"} /\ resume_text[r] # <<>>) =>
                CallPositions(log[r]) # {}

\* both requests are inside the retry loop at once, each with its own file
C11_Witness ==
    /\ request[1] = request[2]
    /\ pc[1] = "sleep"
    /\ pc[2] = "sleep"
    /\ Exists(pdf_path[1])
    /\ Exists(pdf_path[2])
    /\ pdf_path[1] # pdf_path[2]
    /\ Len(log[1]) = 3
    /\ Len(log[2]) = 1


\* ------------------------------------------------ C12: the except branch
\* the step of request r is a resume_file.save that raised: the handler
\* leaves the save without reaching the extraction
SaveRaised(r) == pc[r] = "save" /\ pc'[r] = "done"

\* the step of request r is an os.remove that raised: the handler leaves
\* a removal with the file still on disk
RemoveRaised(r) ==
    /\ pc[r] \in {"reject", "cleanup"}
    /\ pc'[r] = "done"
    /\ disk'[pdf_path[r]] # <<>>

\* C12: a step in which an exception reaches the try block of analyze (the
\* save or a removal raised) ends the request with status 500 and the error
\* text "Internal Server Error: " followed by the exception's message; every
\* step that ends a request leaves a response, and a 500 appears only in a
\* step where such an exception was raised.
C12_ExceptionsAnswered ==
    [][\A r \in Reqs :
          /\ (pc[r] # "done" /\ pc'[r] = "done") => response'[r].status # 0
          /\ SaveRaised(r) =>
                response'[r] = [status |-> 500,
                                error |-> "Internal Server Error: save"]
          /\ RemoveRaised(r) =>
                response'[r] = [status |-> 500,
                                error |-> "Internal Server Error: remove"]
          /\ (response[r].status # 500 /\ response'[r].status = 500) =>
                (SaveRaised(r) \/ RemoveRaised(r))
      ]_vars

\* a save that raised while writing was answered 500, the truncated file
\* left behind
C12_Witness ==
    \E r \in Reqs :
       /\ Finished(r)
       /\ response[r] = [status |-> 500, error |-> "Internal Server Error: save"]
       /\ pdf_path[r] # 0
       /\ Exists(pdf_path[r])


\* ------------------------------------------------ C13: remote failures
\* C13: while the retry loop runs no response is produced; when it is over
\* the engine has returned a string, the trimmed text of its last call or
\* the fallback string; and a request that called the remote service is
\* answered 200 unless the removal of its temp file raised.
C13_RemoteAbsorbed ==
    \A r \in Reqs :
       /\ pc[r] \in {"generate", "sleep"} => response[r].status = 0
       /\ pc[r] = "cleanup" =>
             \/ ats_result[r] = Fallback
             \/ /\ log[r][Len(log[r])].res = "text"
                /\ ats_result[r] = Strip(log[r][Len(log[r])].text)
       /\ (Finished(r) /\ log[r] # <<>>) =>
             \/ response[r].status = 200
             \/ /\ response[r] = [status |-> 500,
                                  error |-> "Internal Server Error: remove"]
                /\ Exists(pdf_path[r])

\* a 200 after an attempt that raised and one whose response had no text
C13_Witness ==
    \E r \in Reqs :
       /\ response[r].status = 200
       /\ \E p \in CallPositions(log[r]) : log[r][p].res = "raise"
       /\ \E p \in CallPositions(log[r]) : log[r][p].res = "none"
       /\ \E p \in CallPositions(log[r]) : log[r][p].res = "text"


\* ------------------------------------------------ C14: termination
\* the terminal outcomes a response belongs to
OutcomesOf(resp) ==
    {k \in 1..5 :
        \/ k = 1 /\ resp = [status |-> 400, error |-> "Resume file missing"]
        \/ k = 2 /\ resp = [status |-> 400, error |-> "Job description required"]
        \/ k = 3 /\ resp = [status |-> 400,
                     error |-> "Could not extract text from the uploaded PDF"]
        \/ k = 4 /\ resp.status = 200
        \/ k = 5 /\ resp.status = 500}

\* C14: every request that has reached analyze is eventually answered; an
\* answered request has exactly one of the five terminal outcomes and its
\* response never changes afterwards; at no time has a request made more
\* than 5 remote calls or slept more than 31 seconds.
C14_Terminates ==
    /\ \A r \in Reqs : (pc[r] = "analyze") ~> Finished(r)
    /\ [](\A r \in Reqs :
            /\ Finished(r) => Cardinality(OutcomesOf(response[r])) = 1
            /\ ~Finished(r) => response[r].status = 0
            /\ Cardinality(CallPositions(log[r])) <= 5
            /\ TotalSlept(log[r]) <= 31)
    /\ [][\A r \in Reqs : Finished(r) =>
             (pc'[r] = "done" /\ response'[r] = response[r])]_vars

\* a request answered after five attempts and 31 seconds of sleep
C14_Witness ==
    \E r \in Reqs :
       /\ Finished(r)
       /\ Cardinality(CallPositions(log[r])) = 5
       /\ TotalSlept(log[r]) = 31
       /\ Cardinality(OutcomesOf(response[r])) = 1


\* ------------------------------------------------ C15, C16: extraction
RECURSIVE JoinPages(_)
\* the text of every page that yields some, each followed by a newline, in
\* page order; a page that raises or yields no text adds nothing
JoinPages(pages) ==
    IF pages = <<>> THEN <<>>
    ELSE LET last == pages[Len(pages)]
             rest == JoinPages(SubSeq(pages, 1, Len(pages) - 1))
         IN IF last.kind = "text" /\ last.text # <<>>
            THEN Cat(rest, Cat(last.text, Rep("\n", 1)))
            ELSE rest

\* request r has run the extraction on the file it saved
Extracted(r) == pc[r] \in {"reject", "generate", "sleep", "cleanup"}

\* some page of the upload of request r raises in extract_text
SomePageRaises(r) ==
    \E i \in DOMAIN request[r].resume.pages :
       request[r].resume.pages[i].kind = "raise"

\* C15: the text extracted from a document that opens is the trimmed
\* concatenation of the texts of all its pages that yield text, in page
\* order, whether or not other pages fail.
C15_AsClaimed ==
    \A r \in Reqs :
       (Extracted(r) /\ request[r].resume.readable) =>
          resume_text[r] = Strip(JoinPages(request[r].resume.pages))

\* C16: when no page raises, the extracted text is the concatenation in
\* page order of each non-empty page text followed by a newline, trimmed;
\* when the file does not open or parse, it is the empty string and the
\* handler goes on to its empty-text branch without an exception.
C16_Extraction ==
    \A r \in Reqs :
       Extracted(r) =>
          /\ (request[r].resume.readable /\ ~SomePageRaises(r)) =>
                resume_text[r] = Strip(JoinPages(request[r].resume.pages))
          /\ ~request[r].resume.readable =>
                (resume_text[r] = <<>> /\ pc[r] = "reject"
                 /\ response[r].status = 0)

\* three pages, the second without text: "xx\ny"
C16_Witness ==
    \E r \in Reqs :
       /\ pc[r] = "generate"
       /\ Len(request[r].resume.pages) = 3
       /\ request[r].resume.pages[2].kind = "none"
       /\ resume_text[r] = Lit(<<"x", "x", "\n", "y">>)


\* ------------------------------------------------ C17: frame of validation
\* request r was rejected by the validation
RejectedByValidation(r) ==
    \/ response[r] = [status |-> 400, error |-> "Resume file missing"]
    \/ response[r] = [status |-> 400, error |-> "Job description required"]

\* C17: the validation step changes neither the upload directory nor the
\* names issued, extracts nothing and calls nothing, and a request it
\* rejected never has a path, an extracted text or a remote call; a request
\* that called the remote service had a resume part and a non-blank job
\* description, saved its file and extracted a non-empty text; and the
\* retry loop of a request is entered once, from the extraction, and only
\* moves forward.
C17_ValidationFrame ==
    /\ [](\A r \in Reqs :
            /\ RejectedByValidation(r) =>
                  /\ Finished(r)
                  /\ pdf_path[r] = 0
                  /\ resume_text[r] = <<>>
                  /\ log[r] = <<>>
                  /\ delay_idx[r] = 0
            /\ log[r] # <<>> =>
                  /\ request[r].has_resume
                  /\ ~Blank(SubmittedJd(r))
                  /\ pdf_path[r] # 0
                  /\ response[r] # [status |-> 500,
                                    error |-> "Internal Server Error: save"]
                  /\ resume_text[r] # <<>>
                  /\ delay_idx[r] >= 1)
    /\ [][\A r \in Reqs :
             /\ pc[r] = "analyze" =>
                   /\ disk' = disk
                   /\ issued' = issued
                   /\ log'[r] = log[r]
                   /\ resume_text'[r] = resume_text[r]
             /\ delay_idx'[r] # delay_idx[r] =>
                   /\ delay_idx'[r] = delay_idx[r] + 1
                   /\ delay_idx[r] = 0 => (pc[r] = "extract" /\ log[r] = <<>>)
       ]_vars

\* a request with a resume part and a blank job description was rejected
C17_Witness ==
    \E r \in Reqs :
       /\ RejectedByValidation(r)
       /\ request[r].has_resume
       /\ request[r].resume.readable
       /\ request[r].resume.pages # <<>>
       /\ disk = [u \in UUIDs |-> <<>>]

====
